---- MODULE Spec2Model ----
(***************************************************************************)
(* Session behaviour of the QardioARM 2 scripts.                           *)
(*                                                                         *)
(* Three scripts drive the BLE transport:                                  *)
(*   monitor  : blood_pressure_monitor.py  main()                          *)
(*   attempt1 : attempt1.py                connect_and_write()             *)
(*   app      : qardio_arm2_app.py         run_interactive_session()       *)
(* One run executes one of them; `script` says which.  `pc` is the await   *)
(* the coroutine is suspended at, `calls` the transport operations issued  *)
(* so far together with the outcome the transport gave each of them.      *)
(* The transport (bleak) is external: every call's outcome is chosen by    *)
(* the environment.                                                        *)
(***************************************************************************)
EXTENDS Integers, Sequences, FiniteSets, TLC

VARIABLES
    script,            \* which script this run executes
    pc,                \* the statement the coroutine is at
    attempt,           \* loop variable `attempt` of the current retry loop
    i,                 \* loop variable `i` of connect_and_write (commands done)
    char_idx,          \* position in info_characteristics (read_device_info)
    calls,             \* transport operations issued, with their outcomes
    linked,            \* client.is_connected: the transport link is up
    exit,              \* branch through which the script left its main flow
    device_address,    \* attempt1: an address was supplied on the command line
    stopAt,            \* pc at which a stop / interrupt arrived ("none" if none)
    lostWhileActive,   \* the link dropped while the session was waiting for data
    measurements,      \* the readings recorded by the notification handler
    arrived,           \* notifications that reached the client, in order
    sessions,          \* runs of run_interactive_session on this client object
    data,              \* decoder: the byte sequence handed to the parser
    parsed,            \* decoder: what the parser returned for `data`
    sfloat_in,         \* decoder: the (mantissa, exponent) pair encoded in `data`
    catalog,           \* required characteristics the peripheral offers
    advertising,       \* name matching: the devices a scan returns
    devices,           \* name matching: the list scan_for_devices returned
    selected,          \* name matching: address handed on for connection
    clients,           \* two clients: the fields of each QardioArm2Client
    actor,             \* two clients: the client whose step came last
    waits              \* sleeps made so far by each retry loop

vars == <<script, pc, attempt, i, char_idx, calls, linked, exit,
          device_address, stopAt, lostWhileActive, measurements, arrived,
          sessions, data, parsed, sfloat_in, catalog, advertising, devices,
          selected, clients, actor, waits>>

----------------------------------------------------------------------------
(* Configuration constants of the scripts.                                 *)

MAX_DISCOVERY_RETRIES == 3
MAX_CONNECTION_RETRIES == 3
attempt1_MAX_DISCOVERY_RETRIES == 3
attempt1_MAX_CONNECTION_RETRIES == 3
attempt1_MAX_COMMAND_RETRIES == 3
INFO_CHARACTERISTICS == 6

(* connect_and_write repeats send_command range(20000) times; the model    *)
(* runs the same loop for MaxCommands iterations.                          *)
MaxCommands == 2

Scripts == {"monitor", "attempt1", "app"}

(* Outcomes the transport can give.                                        *)
DiscoverResults == {"found", "absent", "error"}
ConnectResults == {"ok", "already", "error"}
IoResults == {"ok", "error"}

(* The characteristics a session cannot do without: the Blood Pressure     *)
(* Measurement characteristic it subscribes to and the vendor activation   *)
(* characteristic it writes to.                                            *)
RequiredCharacteristics == {"measurement", "activation"}

(* A call that names a characteristic the peripheral does not offer can    *)
(* only raise; on a characteristic that is there it may succeed or fail.   *)
OnCharacteristic(char) == IF char \in catalog THEN IoResults ELSE {"error"}

----------------------------------------------------------------------------
(* Helpers over the call log.                                              *)

Call(op, res) == [op |-> op, res |-> res, cmd |-> i]

Indices(op) == {k \in 1..Len(calls) : calls[k].op = op}

Count(op) == Cardinality(Indices(op))

Issued(op) == Indices(op) # {}

(* Nothing has been handed to the parser yet.                              *)
NotParsed == [kind |-> "pending"]

(* No retry loop has slept yet.                                            *)
NoWaits == [discover |-> 0, connect |-> 0, command |-> 0]

----------------------------------------------------------------------------
Init ==
    /\ script \in Scripts
    /\ device_address \in BOOLEAN
    /\ (device_address => script = "attempt1")
    /\ pc = IF script = "app" THEN "scan" ELSE "discover"
    /\ attempt = 1
    /\ i = 0
    /\ char_idx = 1
    /\ calls = <<>>
    /\ linked = FALSE
    /\ exit = "none"
    /\ stopAt = "none"
    /\ lostWhileActive = FALSE
    /\ measurements = <<>>
    /\ arrived = <<>>
    /\ sessions = 1
    /\ data = <<>>
    /\ parsed = NotParsed
    /\ sfloat_in = <<>>
    /\ catalog = RequiredCharacteristics
    /\ advertising = <<>>
    /\ devices = <<>>
    /\ selected = <<>>
    /\ clients = <<>>
    /\ actor = 0
    /\ waits = NoWaits

----------------------------------------------------------------------------
(* Retry loops: `for attempt in range(1, MAX + 1)`.  After a failed        *)
(* attempt the loop runs again exactly when attempt < MAX.                 *)

RangeHasNext_OffByOne(a, max) == a <= max

RangeHasNext(a, max) == a < max

(* discover_device: the scan result is usable when a device with the       *)
(* target name is in it; an empty result and an exception both fall        *)
(* through to the next iteration.                                          *)
DeviceFound(r) == r = "found"

(* After an attempt that failed: `if attempt < MAX: await                  *)
(* asyncio.sleep(RETRY_DELAY)`.  An attempt that succeeded returns before  *)
(* it.  `waits` counts the sleeps of each loop.                            *)
sleeps_before_retry_Always(a, max) == TRUE

sleeps_before_retry(a, max) == a < max

Slept(loop, failed, a, max) ==
    IF failed /\ sleeps_before_retry(a, max)
       THEN [waits EXCEPT ![loop] = @ + 1]
       ELSE waits

----------------------------------------------------------------------------
(* blood_pressure_monitor.py                                               *)

(* connect_to_device: only a connect() that returns is a success; every    *)
(* exception, "already connected" included, is caught and retried.         *)
monitor_connect_succeeded_Swallowed(r) == r \in {"ok", "error"}

monitor_connect_succeeded(r) == r = "ok"

(* main: start_notify is awaited inside the try block; an exception goes   *)
(* to `except Exception` and from there to the finally block.              *)
main_after_start_notify_IgnoringError(r) == "activate"

main_after_start_notify_Retrying(r) == IF r = "ok" THEN "activate" ELSE "subscribe"

main_after_start_notify(r) == IF r = "ok" THEN "activate" ELSE "stop_notify"

(* main: activate_measurement returns False on a write error and main      *)
(* returns, which runs the finally block.                                  *)
main_after_activate_Resubscribing(r) ==
    IF r = "ok" THEN "waiting" ELSE "subscribe"

main_after_activate(r) == IF r = "ok" THEN "waiting" ELSE "stop_notify"

(* main, finally: stop_notify and disconnect share one try block, so an    *)
(* exception of stop_notify skips disconnect.                              *)
main_after_stop_notify_Waiting(r) ==
    IF r = "ok" THEN "disconnect" ELSE "cleanup_wait"

main_after_stop_notify(r) == IF r = "ok" THEN "disconnect" ELSE "done"

monitor_discover_device ==
    /\ script = "monitor"
    /\ pc = "discover"
    /\ \E r \in DiscoverResults :
         /\ calls' = Append(calls, Call("discover", r))
         /\ waits' = Slept("discover", ~DeviceFound(r), attempt,
                           MAX_DISCOVERY_RETRIES)
         /\ IF DeviceFound(r)
               THEN /\ pc' = "connect"
                    /\ attempt' = 1
                    /\ exit' = exit
               ELSE IF RangeHasNext(attempt, MAX_DISCOVERY_RETRIES)
                       THEN /\ pc' = pc
                            /\ attempt' = attempt + 1
                            /\ exit' = exit
                       ELSE /\ pc' = "done"
                            /\ attempt' = attempt
                            /\ exit' = "discovery_failed"
    /\ UNCHANGED <<measurements, arrived, sessions, data, parsed, sfloat_in,
                   catalog>>
    /\ UNCHANGED <<advertising, devices, selected, clients, actor>>
    /\ UNCHANGED <<script, i, char_idx, linked, device_address, stopAt,
                   lostWhileActive>>

monitor_connect_to_device ==
    /\ script = "monitor"
    /\ pc = "connect"
    /\ \E r \in ConnectResults :
         /\ calls' = Append(calls, Call("connect", r))
         /\ waits' = Slept("connect", ~monitor_connect_succeeded(r), attempt,
                           MAX_CONNECTION_RETRIES)
         /\ IF monitor_connect_succeeded(r)
               THEN /\ pc' = "read_feature"
                    /\ linked' = TRUE
                    /\ attempt' = 1
                    /\ exit' = exit
               ELSE IF RangeHasNext(attempt, MAX_CONNECTION_RETRIES)
                       THEN /\ pc' = pc
                            /\ attempt' = attempt + 1
                            /\ UNCHANGED <<linked, exit>>
                       ELSE /\ pc' = "done"
                            /\ exit' = "connect_failed"
                            /\ UNCHANGED <<linked, attempt>>
    /\ UNCHANGED <<measurements, arrived, sessions, data, parsed, sfloat_in,
                   catalog>>
    /\ UNCHANGED <<advertising, devices, selected, clients, actor>>
    /\ UNCHANGED <<script, i, char_idx, device_address, stopAt,
                   lostWhileActive>>

(* The feature read swallows its own exception: main goes on either way.   *)
main_after_read_feature_Raising(r) ==
    IF r = "ok" THEN "subscribe" ELSE "stop_notify"

main_after_read_feature(r) == "subscribe"

read_blood_pressure_feature ==
    /\ script = "monitor"
    /\ pc = "read_feature"
    /\ \E r \in IoResults :
         /\ calls' = Append(calls, Call("read", r))
         /\ pc' = main_after_read_feature(r)
    /\ UNCHANGED <<measurements, arrived, sessions, data, parsed, sfloat_in,
                   catalog>>
    /\ UNCHANGED <<advertising, devices, selected, clients, actor, waits>>
    /\ UNCHANGED <<script, attempt, i, char_idx, linked, exit, device_address,
                   stopAt, lostWhileActive>>

main_start_notify ==
    /\ script = "monitor"
    /\ pc = "subscribe"
    /\ \E r \in OnCharacteristic("measurement") :
         /\ calls' = Append(calls, Call("subscribe", r))
         /\ pc' = main_after_start_notify(r)
         /\ exit' = IF r = "ok" THEN exit ELSE "monitoring_error"
    /\ UNCHANGED <<measurements, arrived, sessions, data, parsed, sfloat_in,
                   catalog>>
    /\ UNCHANGED <<advertising, devices, selected, clients, actor, waits>>
    /\ UNCHANGED <<script, attempt, i, char_idx, linked, device_address,
                   stopAt, lostWhileActive>>

activate_measurement ==
    /\ script = "monitor"
    /\ pc = "activate"
    /\ \E r \in OnCharacteristic("activation") :
         /\ calls' = Append(calls, Call("write", r))
         /\ pc' = main_after_activate(r)
         /\ exit' = IF r = "ok" THEN exit ELSE "activation_failed"
    /\ UNCHANGED <<measurements, arrived, sessions, data, parsed, sfloat_in,
                   catalog>>
    /\ UNCHANGED <<advertising, devices, selected, clients, actor, waits>>
    /\ UNCHANGED <<script, attempt, i, char_idx, linked, device_address,
                   stopAt, lostWhileActive>>

(* Ctrl+C while main is suspended inside its try block: the exception      *)
(* (KeyboardInterrupt, or the CancelledError asyncio.run delivers) is not  *)
(* an Exception, so control reaches the finally block.                     *)
main_KeyboardInterrupt ==
    /\ script = "monitor"
    /\ pc \in {"read_feature", "subscribe", "activate", "waiting"}
    /\ stopAt' = pc
    /\ exit' = "interrupted"
    /\ pc' = "stop_notify"
    /\ UNCHANGED <<measurements, arrived, sessions, data, parsed, sfloat_in,
                   catalog>>
    /\ UNCHANGED <<advertising, devices, selected, clients, actor, waits>>
    /\ UNCHANGED <<script, attempt, i, char_idx, calls, linked,
                   device_address, lostWhileActive>>

main_stop_notify ==
    /\ script = "monitor"
    /\ pc = "stop_notify"
    /\ \E r \in OnCharacteristic("measurement") :
         /\ calls' = Append(calls, Call("unsubscribe", r))
         /\ pc' = main_after_stop_notify(r)
    /\ UNCHANGED <<measurements, arrived, sessions, data, parsed, sfloat_in,
                   catalog>>
    /\ UNCHANGED <<advertising, devices, selected, clients, actor, waits>>
    /\ UNCHANGED <<script, attempt, i, char_idx, linked, exit, device_address,
                   stopAt, lostWhileActive>>

main_disconnect ==
    /\ script = "monitor"
    /\ pc = "disconnect"
    /\ \E r \in IoResults :
         /\ calls' = Append(calls, Call("disconnect", r))
         /\ linked' = IF r = "ok" THEN FALSE ELSE linked
    /\ pc' = "done"
    /\ UNCHANGED <<measurements, arrived, sessions, data, parsed, sfloat_in,
                   catalog>>
    /\ UNCHANGED <<advertising, devices, selected, clients, actor, waits>>
    /\ UNCHANGED <<script, attempt, i, char_idx, exit, device_address, stopAt,
                   lostWhileActive>>

(* The peripheral drops the link.  No script registers a disconnect        *)
(* callback: only client.is_connected changes.                             *)
transport_disconnected ==
    /\ linked
    /\ pc # "done"
    /\ linked' = FALSE
    /\ lostWhileActive' = (lostWhileActive \/ pc \in {"waiting", "listening"})
    /\ UNCHANGED <<measurements, arrived, sessions, data, parsed, sfloat_in,
                   catalog>>
    /\ UNCHANGED <<advertising, devices, selected, clients, actor, waits>>
    /\ UNCHANGED <<script, pc, attempt, i, char_idx, calls, exit,
                   device_address, stopAt>>

----------------------------------------------------------------------------
(* attempt1.py                                                             *)

(* connect_to_device: connect() returning, or a BleakError whose text      *)
(* contains "already connected", both return the client.                   *)
attempt1_connect_succeeded(r) == r \in {"ok", "already"}

(* connect_and_write: `for i in range(20000)` goes on after a successful   *)
(* command while commands remain.                                          *)
MoreCommands(n) == n < MaxCommands

(* send_command: the write loop runs again after a write that raised,      *)
(* while attempts remain; a write that returned leaves it by `return True`.*)
WriteLoopContinues_NoReturn(r, a) == RangeHasNext(a, attempt1_MAX_COMMAND_RETRIES)

WriteLoopContinues(r, a) ==
    r # "ok" /\ RangeHasNext(a, attempt1_MAX_COMMAND_RETRIES)

(* discover_device(device_address): a supplied address is returned at      *)
(* once, without scanning.                                                 *)
discover_device_returns_at_once_Never(address) == FALSE

discover_device_returns_at_once(address) == address

attempt1_discover_device ==
    /\ script = "attempt1"
    /\ pc = "discover"
    /\ IF discover_device_returns_at_once(device_address)
          THEN /\ pc' = "connect"
               /\ UNCHANGED <<calls, attempt, exit, waits>>
          ELSE \E r \in DiscoverResults :
                 /\ calls' = Append(calls, Call("discover", r))
                 /\ waits' = Slept("discover", ~DeviceFound(r), attempt,
                                   attempt1_MAX_DISCOVERY_RETRIES)
                 /\ IF DeviceFound(r)
                       THEN /\ pc' = "connect"
                            /\ attempt' = 1
                            /\ exit' = exit
                       ELSE IF RangeHasNext(attempt, attempt1_MAX_DISCOVERY_RETRIES)
                               THEN /\ pc' = pc
                                    /\ attempt' = attempt + 1
                                    /\ exit' = exit
                               ELSE /\ pc' = "done"
                                    /\ attempt' = attempt
                                    /\ exit' = "discovery_failed"
    /\ UNCHANGED <<measurements, arrived, sessions, data, parsed, sfloat_in,
                   catalog>>
    /\ UNCHANGED <<advertising, devices, selected, clients, actor>>
    /\ UNCHANGED <<script, i, char_idx, linked, device_address, stopAt,
                   lostWhileActive>>

attempt1_connect_to_device ==
    /\ script = "attempt1"
    /\ pc = "connect"
    /\ \E r \in ConnectResults :
         /\ calls' = Append(calls, Call("connect", r))
         /\ waits' = Slept("connect", ~attempt1_connect_succeeded(r), attempt,
                           attempt1_MAX_CONNECTION_RETRIES)
         /\ IF attempt1_connect_succeeded(r)
               THEN /\ pc' = "send_command"
                    /\ linked' = TRUE
                    /\ attempt' = 1
                    /\ exit' = exit
               ELSE IF RangeHasNext(attempt, attempt1_MAX_CONNECTION_RETRIES)
                       THEN /\ pc' = pc
                            /\ attempt' = attempt + 1
                            /\ UNCHANGED <<linked, exit>>
                       ELSE /\ pc' = "done"
                            /\ exit' = "connect_failed"
                            /\ UNCHANGED <<linked, attempt>>
    /\ UNCHANGED <<measurements, arrived, sessions, data, parsed, sfloat_in,
                   catalog>>
    /\ UNCHANGED <<advertising, devices, selected, clients, actor>>
    /\ UNCHANGED <<script, i, char_idx, device_address, stopAt,
                   lostWhileActive>>

(* connect_and_write: `if not cmd_success: success = False; break` leaves  *)
(* the command loop for the disconnect.                                    *)
connect_and_write_after_failed_command_Continuing(n) ==
    IF MoreCommands(n + 1) THEN "send_command" ELSE "disconnect"

connect_and_write_after_failed_command(n) == "disconnect"

(* send_command, one iteration of its write loop.  A failed last attempt   *)
(* returns False; connect_and_write then breaks out and disconnects.       *)
(* (The look at client.services before the loop reads a cached property    *)
(* and issues no transport call.)                                          *)
send_command ==
    /\ script = "attempt1"
    /\ pc = "send_command"
    /\ \E r \in OnCharacteristic("activation") :
         /\ calls' = Append(calls, Call("write", r))
         /\ waits' = Slept("command", r # "ok", attempt,
                           attempt1_MAX_COMMAND_RETRIES)
         /\ IF WriteLoopContinues(r, attempt)
               THEN /\ pc' = pc
                    /\ attempt' = attempt + 1
                    /\ exit' = exit
               ELSE IF r = "ok"
                       THEN /\ pc' = "read_response"
                            /\ UNCHANGED <<attempt, exit>>
                       ELSE /\ pc' = connect_and_write_after_failed_command(i)
                            /\ attempt' = attempt
                            /\ exit' = "command_failed"
    /\ UNCHANGED <<measurements, arrived, sessions, data, parsed, sfloat_in,
                   catalog>>
    /\ UNCHANGED <<advertising, devices, selected, clients, actor>>
    /\ UNCHANGED <<script, i, char_idx, linked, device_address, stopAt,
                   lostWhileActive>>

(* send_command, after a write that succeeded: the characteristic is read  *)
(* back, the outcome is only printed, and True is returned.                *)
send_command_after_read_Failing(r, n) ==
    IF r = "ok" /\ MoreCommands(n) THEN "send_command" ELSE "disconnect"

send_command_after_read(r, n) ==
    IF MoreCommands(n) THEN "send_command" ELSE "disconnect"

send_command_read_response ==
    /\ script = "attempt1"
    /\ pc = "read_response"
    /\ \E r \in OnCharacteristic("activation") :
         /\ calls' = Append(calls, Call("read", r))
         /\ pc' = send_command_after_read(r, i + 1)
    /\ i' = i + 1
    /\ attempt' = 1
    /\ exit' = IF MoreCommands(i + 1) THEN exit ELSE "completed"
    /\ UNCHANGED <<measurements, arrived, sessions, data, parsed, sfloat_in,
                   catalog>>
    /\ UNCHANGED <<advertising, devices, selected, clients, actor, waits>>
    /\ UNCHANGED <<script, char_idx, linked, device_address, stopAt,
                   lostWhileActive>>

(* connect_and_write: `await client.disconnect()` in the try block; an     *)
(* exception there reaches the handler, which disconnects once more.       *)
connect_and_write_disconnect ==
    /\ script = "attempt1"
    /\ pc = "disconnect"
    /\ \E r \in IoResults :
         /\ calls' = Append(calls, Call("disconnect", r))
         /\ IF r = "ok"
               THEN /\ pc' = "done"
                    /\ linked' = FALSE
                    /\ exit' = exit
               ELSE /\ pc' = "error_disconnect"
                    /\ linked' = linked
                    /\ exit' = "command_error"
    /\ UNCHANGED <<measurements, arrived, sessions, data, parsed, sfloat_in,
                   catalog>>
    /\ UNCHANGED <<advertising, devices, selected, clients, actor, waits>>
    /\ UNCHANGED <<script, attempt, i, char_idx, device_address, stopAt,
                   lostWhileActive>>

connect_and_write_error_disconnect ==
    /\ script = "attempt1"
    /\ pc = "error_disconnect"
    /\ \E r \in IoResults :
         /\ calls' = Append(calls, Call("disconnect", r))
         /\ linked' = IF r = "ok" THEN FALSE ELSE linked
    /\ pc' = "done"
    /\ UNCHANGED <<measurements, arrived, sessions, data, parsed, sfloat_in,
                   catalog>>
    /\ UNCHANGED <<advertising, devices, selected, clients, actor, waits>>
    /\ UNCHANGED <<script, attempt, i, char_idx, exit, device_address, stopAt,
                   lostWhileActive>>

----------------------------------------------------------------------------
(* qardio_arm2_app.py                                                      *)

(* run_interactive_session: enable_blood_pressure_notifications returns    *)
(* False on an exception and the listening loop is skipped.                *)
session_after_enable(r) == IF r = "ok" THEN "listening" ELSE "finally"

(* scan_for_devices is called once; an empty list returns, an exception    *)
(* reaches `except Exception`.  Both end in the finally block.             *)
scan_for_devices ==
    /\ script = "app"
    /\ pc = "scan"
    /\ \E r \in DiscoverResults :
         /\ calls' = Append(calls, Call("discover", r))
         /\ pc' = IF r = "found" THEN "select" ELSE "finally"
         /\ exit' = CASE r = "found" -> exit
                      [] r = "absent" -> "no_devices"
                      [] OTHER -> "session_error"
    /\ UNCHANGED <<measurements, arrived, sessions, data, parsed, sfloat_in,
                   catalog>>
    /\ UNCHANGED <<advertising, devices, selected, clients, actor, waits>>
    /\ UNCHANGED <<script, attempt, i, char_idx, linked, device_address,
                   stopAt, lostWhileActive>>

(* The user picks a device, or answers 'q'.                                *)
select_device ==
    /\ script = "app"
    /\ pc = "select"
    /\ \E quit \in BOOLEAN :
         /\ pc' = IF quit THEN "finally" ELSE "connect"
         /\ exit' = IF quit THEN "quit" ELSE exit
    /\ UNCHANGED <<measurements, arrived, sessions, data, parsed, sfloat_in,
                   catalog>>
    /\ UNCHANGED <<advertising, devices, selected, clients, actor, waits>>
    /\ UNCHANGED <<script, attempt, i, char_idx, calls, linked,
                   device_address, stopAt, lostWhileActive>>

(* QardioArm2Client.connect: one attempt; any exception returns False.     *)
client_connect ==
    /\ script = "app"
    /\ pc = "connect"
    /\ \E r \in ConnectResults :
         /\ calls' = Append(calls, Call("connect", r))
         /\ IF r = "ok"
               THEN /\ pc' = "read_device_info"
                    /\ linked' = TRUE
                    /\ exit' = exit
               ELSE /\ pc' = "finally"
                    /\ linked' = linked
                    /\ exit' = "connect_failed"
    /\ UNCHANGED <<measurements, arrived, sessions, data, parsed, sfloat_in,
                   catalog>>
    /\ UNCHANGED <<advertising, devices, selected, clients, actor, waits>>
    /\ UNCHANGED <<script, attempt, i, char_idx, device_address, stopAt,
                   lostWhileActive>>

(* read_device_info: one read per entry of info_characteristics, each in   *)
(* its own try block.  (discover_services before it only walks the cached  *)
(* client.services and issues no transport call.)  When the client is no   *)
(* longer connected on entry the function returns at once, reading         *)
(* nothing.                                                                *)
read_device_info ==
    /\ script = "app"
    /\ pc = "read_device_info"
    /\ IF char_idx = 1 /\ ~linked
          THEN /\ pc' = "read_battery_level"
               /\ UNCHANGED <<calls, char_idx>>
          ELSE /\ \E r \in IoResults : calls' = Append(calls, Call("read", r))
               /\ IF char_idx < INFO_CHARACTERISTICS
                     THEN char_idx' = char_idx + 1 /\ pc' = pc
                     ELSE char_idx' = char_idx /\ pc' = "read_battery_level"
    /\ UNCHANGED <<measurements, arrived, sessions, data, parsed, sfloat_in,
                   catalog>>
    /\ UNCHANGED <<advertising, devices, selected, clients, actor, waits>>
    /\ UNCHANGED <<script, attempt, i, linked, exit, device_address, stopAt,
                   lostWhileActive>>

read_battery_level ==
    /\ script = "app"
    /\ pc = "read_battery_level"
    /\ \E r \in IoResults : calls' = Append(calls, Call("read", r))
    /\ pc' = "enable"
    /\ UNCHANGED <<measurements, arrived, sessions, data, parsed, sfloat_in,
                   catalog>>
    /\ UNCHANGED <<advertising, devices, selected, clients, actor, waits>>
    /\ UNCHANGED <<script, attempt, i, char_idx, linked, exit, device_address,
                   stopAt, lostWhileActive>>

enable_blood_pressure_notifications ==
    /\ script = "app"
    /\ pc = "enable"
    /\ \E r \in IoResults :
         /\ calls' = Append(calls, Call("subscribe", r))
         /\ pc' = session_after_enable(r)
         /\ exit' = IF r = "ok" THEN exit ELSE "enable_failed"
    /\ UNCHANGED <<measurements, arrived, sessions, data, parsed, sfloat_in,
                   catalog>>
    /\ UNCHANGED <<advertising, devices, selected, clients, actor, waits>>
    /\ UNCHANGED <<script, attempt, i, char_idx, linked, device_address,
                   stopAt, lostWhileActive>>

(* The listening loop ends on the command 'q', or on a KeyboardInterrupt   *)
(* raised inside its try block; both break to the disable call.            *)
session_quit ==
    /\ script = "app"
    /\ pc = "listening"
    /\ stopAt' = pc
    /\ exit' = "quit"
    /\ pc' = "disable"
    /\ UNCHANGED <<measurements, arrived, sessions, data, parsed, sfloat_in,
                   catalog>>
    /\ UNCHANGED <<advertising, devices, selected, clients, actor, waits>>
    /\ UNCHANGED <<script, attempt, i, char_idx, calls, linked,
                   device_address, lostWhileActive>>

(* Ctrl+C anywhere else in the session, or delivered as a task             *)
(* cancellation (CancelledError is caught by no handler of the loop):      *)
(* control goes to the finally block, past the disable call.               *)
session_KeyboardInterrupt ==
    /\ script = "app"
    /\ pc \in {"connect", "read_device_info", "read_battery_level", "enable",
               "listening"}
    /\ stopAt' = pc
    /\ exit' = "interrupted"
    /\ pc' = "finally"
    /\ UNCHANGED <<measurements, arrived, sessions, data, parsed, sfloat_in,
                   catalog>>
    /\ UNCHANGED <<advertising, devices, selected, clients, actor, waits>>
    /\ UNCHANGED <<script, attempt, i, char_idx, calls, linked,
                   device_address, lostWhileActive>>

(* disable_blood_pressure_notifications catches the exception of           *)
(* stop_notify and returns False; the caller ignores the result.           *)
disable_blood_pressure_notifications ==
    /\ script = "app"
    /\ pc = "disable"
    /\ \E r \in IoResults : calls' = Append(calls, Call("unsubscribe", r))
    /\ pc' = "finally"
    /\ UNCHANGED <<measurements, arrived, sessions, data, parsed, sfloat_in,
                   catalog>>
    /\ UNCHANGED <<advertising, devices, selected, clients, actor, waits>>
    /\ UNCHANGED <<script, attempt, i, char_idx, linked, exit, device_address,
                   stopAt, lostWhileActive>>

(* finally: `if self.client and self.client.is_connected: disconnect()`.   *)
session_finally ==
    /\ script = "app"
    /\ pc = "finally"
    /\ IF linked
          THEN \E r \in IoResults :
                 /\ calls' = Append(calls, Call("disconnect", r))
                 /\ linked' = (r # "ok")
          ELSE UNCHANGED <<calls, linked>>
    /\ pc' = "done"
    /\ UNCHANGED <<measurements, arrived, sessions, data, parsed, sfloat_in,
                   catalog>>
    /\ UNCHANGED <<advertising, devices, selected, clients, actor, waits>>
    /\ UNCHANGED <<script, attempt, i, char_idx, exit, device_address, stopAt,
                   lostWhileActive>>

----------------------------------------------------------------------------
(* The measurement parsers.                                                *)
(*                                                                         *)
(* A byte sequence is a sequence over 0..255; Python's data[k] is d[k+1].  *)
(* A decimal value mantissa * 10**exponent has the normal form [m, e] (no  *)
(* trailing zero in m, zero as [0, 0]); two decimals are the same exactly  *)
(* when their normal forms are equal.  An                                  *)
(* optional key of the returned dict is a sequence: <<>> when the key is   *)
(* absent, <<v>> when it is present with value v.                          *)

RECURSIVE Normal(_, _)
Normal(m, e) ==
    IF m = 0 THEN [m |-> 0, e |-> 0]
    ELSE IF m % 10 = 0 THEN Normal(m \div 10, e + 1)
    ELSE [m |-> m, e |-> e]

(* (data[k+1] << 8) | data[k], struct.unpack('<H', data[k:k+2])[0]         *)
LittleEndian16(lo, hi) == (hi * 256) + lo

(* flags & mask as a comparison instead of a bit test                      *)
FlagSet_Compared(flags, mask) == flags >= mask

(* flags & mask, for a mask with one bit set                               *)
FlagSet(flags, mask) == (flags \div mask) % 2 = 1

(* "kPa" if units_kpa else "mmHg"                                          *)
units_Swapped(units_kpa) == IF units_kpa THEN "mmHg" ELSE "kPa"

units(units_kpa) == IF units_kpa THEN "kPa" ELSE "mmHg"

(* parse_sfloat: mantissa = value & 0x0FFF, made negative by               *)
(* -((~mantissa & 0x0FFF) + 1) when bit 0x0800 is set.                     *)
sfloat_mantissa(value) ==
    LET mantissa == value % 4096
    IN  IF FlagSet(mantissa, 2048)
           THEN -((4095 - mantissa) + 1)
           ELSE mantissa

(* parse_sfloat: exponent = (value >> 12) & 0x000F, made negative by       *)
(* -((~exponent & 0x000F) + 1) when bit 0x0008 is set.                     *)
sfloat_exponent(value) ==
    LET exponent == (value \div 4096) % 16
    IN  IF FlagSet(exponent, 8)
           THEN -((15 - exponent) + 1)
           ELSE exponent

RECURSIVE Pow(_, _)
Pow(b, n) == IF n = 0 THEN 1 ELSE b * Pow(b, n - 1)

(* Python numbers.  10 ** exponent is an int for exponent >= 0 and a float *)
(* (a binary double) for exponent < 0; x / 10.0 is a float.  A float holds *)
(* the decimal m * 10**e exactly only when that decimal is a dyadic        *)
(* rational, i.e. when e >= 0 or 5**(-e) divides m.  A value is kept as    *)
(*   repr = "exact"          the decimal [m, e] itself, in normal form;    *)
(*   repr = "nearest_double" the double nearest to the decimal [m, e],     *)
(*                           which is not equal to it;                     *)
(*   repr = "float_product"  the double m * float(10**e), which is not     *)
(*                           equal to the decimal and depends on the pair  *)
(*                           (m, e) as written, so the pair is kept as is. *)
ExactInBinary(m, e) == e >= 0 \/ m % Pow(5, -e) = 0

Exact(m, e) ==
    [m |-> Normal(m, e).m, e |-> Normal(m, e).e, repr |-> "exact"]

(* mantissa * (10 ** exponent)                                             *)
float_product(m, e) ==
    IF ExactInBinary(m, e)
       THEN Exact(m, e)
       ELSE [m |-> m, e |-> e, repr |-> "float_product"]

(* raw / 10.0 (places = 1), raw / 1000.0 (places = 3): one correctly       *)
(* rounded division.                                                       *)
float_quotient(raw, places) ==
    IF ExactInBinary(raw, -places)
       THEN Exact(raw, -places)
       ELSE [m |-> Normal(raw, -places).m, e |-> Normal(raw, -places).e,
             repr |-> "nearest_double"]

(* parse_sfloat returns mantissa * (10 ** exponent).                       *)
parse_sfloat(value) ==
    float_product(sfloat_mantissa(value), sfloat_exponent(value))

(* The seven bytes of a Bluetooth Date Time at Python offset `off`.        *)
DateTimeAt(d, off) ==
    [year   |-> LittleEndian16(d[off + 1], d[off + 2]),
     month  |-> d[off + 3],
     day    |-> d[off + 4],
     hour   |-> d[off + 5],
     minute |-> d[off + 6],
     second |-> d[off + 7]]

(* datetime(year, month, day, hours, minutes, seconds) raises ValueError   *)
(* outside these ranges.                                                   *)
DaysInMonth(year, month) ==
    IF month \in {4, 6, 9, 11} THEN 30
    ELSE IF month # 2 THEN 31
    ELSE IF year % 4 = 0 /\ (year % 100 # 0 \/ year % 400 = 0) THEN 29
    ELSE 28

ValidDateTime(t) ==
    /\ t.year \in 1..9999
    /\ t.month \in 1..12
    /\ t.day \in 1..DaysInMonth(t.year, t.month)
    /\ t.hour \in 0..23
    /\ t.minute \in 0..59
    /\ t.second \in 0..59

(* `if has_field and len(data) >= offset + n`                              *)
field_fits_Exactly(present, length, end) == present /\ length = end

field_fits(present, length, end) == present /\ length >= end

(* What a parser gives back when it builds no measurement: None (monitor)  *)
(* or {} (app), with the error it logged.                                  *)
NoMeasurement(kind, logged) == [kind |-> kind, logged |-> {logged}]

(* blood_pressure_monitor.py: `if not data or len(data) < 7`.             *)
monitor_invalid_data(d) == Len(d) = 0 \/ Len(d) < 7

(* blood_pressure_monitor.parse_blood_pressure_measurement.  Indexing past *)
(* the end of data raises IndexError out of the function.                  *)
monitor_parse_blood_pressure_measurement(d) ==
    IF monitor_invalid_data(d) THEN NoMeasurement("none", "invalid_data")
    ELSE IF Len(d) < 7 THEN NoMeasurement("raised", "IndexError")
    ELSE
    LET flags == d[1]
        units_kpa == FlagSet(flags, 1)
        timestamp_present == FlagSet(flags, 2)
        pulse_rate_present == FlagSet(flags, 4)
        systolic == LittleEndian16(d[2], d[3])
        diastolic == LittleEndian16(d[4], d[5])
        mean_arterial == LittleEndian16(d[6], d[7])
        read_timestamp == field_fits(timestamp_present, Len(d), 7 + 7)
        offset == IF read_timestamp THEN 7 + 7 ELSE 7
        read_pulse_rate == field_fits(pulse_rate_present, Len(d), offset + 2)
    IN  [kind |-> "measurement",
         logged |-> {},
         systolic |-> parse_sfloat(systolic),
         diastolic |-> parse_sfloat(diastolic),
         mean_arterial |-> parse_sfloat(mean_arterial),
         unit |-> units(units_kpa),
         flags |-> <<>>,
         timestamp |-> <<>>,
         device_timestamp |->
             IF read_timestamp THEN <<DateTimeAt(d, 7)>> ELSE <<>>,
         pulse_rate |->
             IF read_pulse_rate
                THEN <<parse_sfloat(LittleEndian16(d[offset + 1],
                                                   d[offset + 2]))>>
                ELSE <<>>,
         user_id |-> <<>>,
         status |-> <<>>]

(* qardio_arm2_app.py: `if len(data) < 7`.                                 *)
app_invalid_length_OffByOne(d) == Len(d) < 6

app_invalid_length(d) == Len(d) < 7

(* The pressure words are taken as plain integers: / 10.0 for mmHg,        *)
(* / 1000.0 for kPa.                                                       *)
app_pressure_value(raw, unit) ==
    IF unit = "mmHg" THEN float_quotient(raw, 1) ELSE float_quotient(raw, 3)

(* QardioArm2Client.parse_blood_pressure_measurement.  `now` is what       *)
(* datetime.now() returns during the call.  An exception inside the try    *)
(* block (a slice too short for struct.unpack) returns {}.                 *)
app_parse_blood_pressure_measurement(d, now) ==
    IF app_invalid_length(d) THEN NoMeasurement("empty", "invalid_length")
    ELSE IF Len(d) < 7 THEN NoMeasurement("empty", "parse_error")
    ELSE
    LET flags == d[1]
        unit == units(FlagSet(flags, 1))
        has_timestamp == FlagSet(flags, 2)
        has_pulse_rate == FlagSet(flags, 4)
        has_user_id == FlagSet(flags, 8)
        has_status == FlagSet(flags, 16)
        systolic == LittleEndian16(d[2], d[3])
        diastolic == LittleEndian16(d[4], d[5])
        mean_arterial_pressure == LittleEndian16(d[6], d[7])
        read_timestamp == field_fits(has_timestamp, Len(d), 7 + 7)
        offset1 == IF read_timestamp THEN 7 + 7 ELSE 7
        read_pulse_rate == field_fits(has_pulse_rate, Len(d), offset1 + 2)
        offset2 == IF read_pulse_rate THEN offset1 + 2 ELSE offset1
        read_user_id == field_fits(has_user_id, Len(d), offset2 + 1)
        offset3 == IF read_user_id THEN offset2 + 1 ELSE offset2
        read_status == field_fits(has_status, Len(d), offset3 + 2)
        valid_timestamp == read_timestamp /\ ValidDateTime(DateTimeAt(d, 7))
    IN  [kind |-> "measurement",
         logged |-> IF read_timestamp /\ ~valid_timestamp
                       THEN {"invalid_timestamp"} ELSE {},
         systolic |-> app_pressure_value(systolic, unit),
         diastolic |-> app_pressure_value(diastolic, unit),
         mean_arterial |-> app_pressure_value(mean_arterial_pressure, unit),
         unit |-> unit,
         flags |-> <<flags>>,
         timestamp |-> <<now>>,
         device_timestamp |->
             IF valid_timestamp THEN <<DateTimeAt(d, 7)>> ELSE <<>>,
         pulse_rate |->
             IF read_pulse_rate
                THEN <<float_quotient(LittleEndian16(d[offset1 + 1],
                                                     d[offset1 + 2]), 1)>>
                ELSE <<>>,
         user_id |-> IF read_user_id THEN <<d[offset2 + 1]>> ELSE <<>>,
         status |->
             IF read_status
                THEN <<LittleEndian16(d[offset3 + 1], d[offset3 + 2])>>
                ELSE <<>>]

(* datetime.now() as seen by the model: a reading of a coarse clock.       *)
MaxClock == 1

Clock == 0..MaxClock

----------------------------------------------------------------------------
(* Notifications.                                                          *)
(*                                                                         *)
(* start_notify hands the handler to the transport, which calls it for     *)
(* every notification of the characteristic until stop_notify takes the    *)
(* registration away.  The handler runs on the event loop while the        *)
(* script is suspended at an await.  `measurements` is what the handler    *)
(* keeps: self.measurements in the app, the "Blood Pressure Reading"       *)
(* entries written by the monitor.                                         *)

MaxNotifications == 2

MaxSessions == 2

(* A notification too short to parse, and a reading with a pulse rate.     *)
NotificationPayloads ==
    {<<0, 40, 1>>,
     <<4, 40, 1, 80, 0, 90, 0, 72, 0>>}

Subscribed == \E k \in Indices("subscribe") : calls[k].res = "ok"

Unsubscribed == \E k \in Indices("unsubscribe") : calls[k].res = "ok"

UnsubscribeFailed == \E k \in Indices("unsubscribe") : calls[k].res = "error"

(* The handler is registered from the start_notify that returned to the    *)
(* stop_notify that returned.                                              *)
callback_registered_Forever(subscribed, unsubscribed) == subscribed

callback_registered(subscribed, unsubscribed) == subscribed /\ ~unsubscribed

(* After a stop_notify that raised, the transport may or may not still     *)
(* hold the registration.                                                  *)
RegistrationOutcomes ==
    IF callback_registered(Subscribed, Unsubscribed) /\ UnsubscribeFailed
       THEN BOOLEAN
       ELSE {callback_registered(Subscribed, Unsubscribed)}

(* `if bp_data:` / `if measurement:` -- None and {} are falsy.             *)
handler_keeps_Everything(p) == TRUE

handler_keeps(p) == p.kind = "measurement"

(* The await points at which the link can deliver a notification: those    *)
(* after the start_notify call (the peripheral notifies nobody before it   *)
(* is asked to), in the main flow and in the teardown.                     *)
Listening ==
    IF script = "monitor"
       THEN pc \in {"activate", "waiting", "stop_notify", "disconnect"}
       ELSE pc \in {"listening", "disable", "finally"}

(* The script has left its main flow and is closing the session.           *)
InTeardown ==
    IF script = "monitor"
       THEN pc \in {"stop_notify", "disconnect"}
       ELSE pc \in {"disable", "finally"}

(* datetime.now() inside the handler: a logical clock, the number of       *)
(* notifications that arrived before this one.                             *)
Now == Len(arrived)

parse_notification(d, now) ==
    IF script = "monitor"
       THEN monitor_parse_blood_pressure_measurement(d)
       ELSE app_parse_blood_pressure_measurement(d, now)

(* notification_handler / blood_pressure_notification_handler, called by   *)
(* the transport when it holds the registration.                           *)
notification ==
    /\ script \in {"monitor", "app"}
    /\ linked
    /\ Listening
    /\ Len(arrived) < MaxNotifications
    /\ \E d \in NotificationPayloads, called \in RegistrationOutcomes :
         /\ arrived' = Append(arrived, [data |-> d, called |-> called,
                                        teardown |-> InTeardown])
         /\ measurements' =
                IF called /\ handler_keeps(parse_notification(d, Now))
                   THEN Append(measurements, parse_notification(d, Now))
                   ELSE measurements
    /\ UNCHANGED <<script, pc, attempt, i, char_idx, calls, linked, exit,
                   device_address, stopAt, lostWhileActive, sessions, data,
                   parsed, sfloat_in, catalog>>
    /\ UNCHANGED <<advertising, devices, selected, clients, actor, waits>>

(* QardioArm2Client is built once (self.measurements = []) and             *)
(* run_interactive_session can be called on it again once the previous     *)
(* call has returned with the link down.  Nothing in the method touches    *)
(* self.measurements.  (A further session is started only while the run    *)
(* can still deliver a notification to it.)                                *)
measurements_on_new_session_Cleared(ms) == <<>>

measurements_on_new_session(ms) == ms

run_interactive_session_again ==
    /\ script = "app"
    /\ pc = "done"
    /\ ~linked
    /\ sessions < MaxSessions
    /\ Len(arrived) < MaxNotifications
    /\ sessions' = sessions + 1
    /\ measurements' = measurements_on_new_session(measurements)
    /\ pc' = "scan"
    /\ attempt' = 1
    /\ char_idx' = 1
    /\ calls' = <<>>
    /\ exit' = "none"
    /\ stopAt' = "none"
    /\ lostWhileActive' = FALSE
    /\ UNCHANGED <<script, i, linked, device_address, arrived, data, parsed,
                   sfloat_in, catalog>>
    /\ UNCHANGED <<advertising, devices, selected, clients, actor, waits>>

monitor_Next ==
    \/ monitor_discover_device
    \/ monitor_connect_to_device
    \/ read_blood_pressure_feature
    \/ main_start_notify
    \/ activate_measurement
    \/ main_KeyboardInterrupt
    \/ main_stop_notify
    \/ main_disconnect

attempt1_Next ==
    \/ attempt1_discover_device
    \/ attempt1_connect_to_device
    \/ send_command
    \/ send_command_read_response
    \/ connect_and_write_disconnect
    \/ connect_and_write_error_disconnect

session_Next ==
    \/ scan_for_devices
    \/ select_device
    \/ client_connect
    \/ read_device_info
    \/ read_battery_level
    \/ enable_blood_pressure_notifications
    \/ session_quit
    \/ session_KeyboardInterrupt
    \/ disable_blood_pressure_notifications
    \/ session_finally

app_Next ==
    \/ session_Next
    \/ run_interactive_session_again

Next ==
    \/ monitor_Next
    \/ attempt1_Next
    \/ app_Next
    \/ transport_disconnected
    \/ notification

Spec == Init /\ [][Next]_vars

(* One session of a script that can be stopped (the monitor or the app),   *)
(* in which every transport call of the cleanup path returns: once the     *)
(* script stands at one of its cleanup calls, that call is made and comes  *)
(* back.                                                                   *)
CleanupInit == Init /\ script \in {"monitor", "app"}

CleanupNext ==
    \/ monitor_Next
    \/ session_Next
    \/ transport_disconnected
    \/ notification

Cleanup ==
    /\ WF_vars(main_stop_notify)
    /\ WF_vars(main_disconnect)
    /\ WF_vars(disable_blood_pressure_notifications)
    /\ WF_vars(session_finally)

SpecCleanup == CleanupInit /\ [][CleanupNext]_vars /\ Cleanup

----------------------------------------------------------------------------
(* The two scripts that use both required characteristics, run against     *)
(* peripherals that offer any subset of them.                              *)

CatalogInit ==
    /\ script \in {"monitor", "attempt1"}
    /\ device_address \in BOOLEAN
    /\ (device_address => script = "attempt1")
    /\ catalog \in SUBSET RequiredCharacteristics
    /\ advertising = <<>>
    /\ devices = <<>>
    /\ selected = <<>>
    /\ clients = <<>>
    /\ actor = 0
    /\ waits = NoWaits
    /\ pc = "discover"
    /\ attempt = 1
    /\ i = 0
    /\ char_idx = 1
    /\ calls = <<>>
    /\ linked = FALSE
    /\ exit = "none"
    /\ stopAt = "none"
    /\ lostWhileActive = FALSE
    /\ measurements = <<>>
    /\ arrived = <<>>
    /\ sessions = 1
    /\ data = <<>>
    /\ parsed = NotParsed
    /\ sfloat_in = <<>>

CatalogNext ==
    \/ monitor_Next
    \/ attempt1_Next
    \/ transport_disconnected
    \/ notification

SpecCatalog == CatalogInit /\ [][CatalogNext]_vars

----------------------------------------------------------------------------
(* The parsers on their own: one byte sequence is handed to one of the two *)
(* parse_blood_pressure_measurement functions.                             *)

(* The 16-bit word that carries (mantissa, exponent): exponent in the high *)
(* four bits, mantissa in the low twelve, both two's complement.           *)
sfloat_encode(m, e) == ((e % 16) * 4096) + (m % 4096)

LowByte(word) == word % 256

HighByte(word) == word \div 256

(* systolic 0x0128, diastolic 0x0050, mean arterial pressure 0x005A        *)
Body == <<40, 1, 80, 0, 90, 0>>

(* 2024-03-15 08:30:00, pulse word 0x0048, user id 1, status 0x0004, and   *)
(* one byte nobody asked for.                                              *)
Optional == <<232, 7, 3, 15, 8, 30, 0, 72, 0, 1, 4, 0, 9>>

(* The same with month 13.                                                 *)
OptionalBadMonth == <<232, 7, 13, 15, 8, 30, 0, 72, 0, 1, 4, 0, 9>>

FlagBytes == 0..255

Prefix(s, n) == SubSeq(s, 1, n)

(* Every prefix, the empty one included, of a full packet under every      *)
(* flags byte.                                                             *)
PacketInputs ==
    {Prefix(<<f>> \o Body \o t, n) :
        f \in FlagBytes, t \in {Optional, OptionalBadMonth}, n \in 0..20}

(* The reserved words, and ordinary ones, in each SFLOAT position.         *)
ReservedWords == {2046, 2050, 2047, 2048}

SampleWords == ReservedWords \cup {296, 61443}

Words(a, b, c, p) ==
    <<4, LowByte(a), HighByte(a), LowByte(b), HighByte(b),
         LowByte(c), HighByte(c), LowByte(p), HighByte(p)>>

WordInputs ==
    {Words(a, b, c, p) : a \in SampleWords, b \in SampleWords,
                         c \in SampleWords, p \in SampleWords}

(* The encoding of (m, e) as the systolic word of a seven-byte packet.     *)
SfloatPacket(m, e) ==
    <<0, LowByte(sfloat_encode(m, e)), HighByte(sfloat_encode(m, e)),
      80, 0, 90, 0>>

DecodeInit ==
    /\ script \in {"monitor", "app"}
    /\ \/ /\ data \in PacketInputs \cup WordInputs
          /\ sfloat_in = <<>>
       \/ \E m \in -2048..2047, e \in -8..7 :
             /\ data = SfloatPacket(m, e)
             /\ sfloat_in = <<m, e>>
    /\ pc = "parse"
    /\ parsed = NotParsed
    /\ attempt = 1
    /\ i = 0
    /\ char_idx = 1
    /\ calls = <<>>
    /\ linked = FALSE
    /\ exit = "none"
    /\ device_address = FALSE
    /\ stopAt = "none"
    /\ lostWhileActive = FALSE
    /\ measurements = <<>>
    /\ arrived = <<>>
    /\ sessions = 1
    /\ catalog = RequiredCharacteristics
    /\ advertising = <<>>
    /\ devices = <<>>
    /\ selected = <<>>
    /\ clients = <<>>
    /\ actor = 0
    /\ waits = NoWaits

decode ==
    /\ pc = "parse"
    /\ \/ /\ script = "monitor"
          /\ parsed' = monitor_parse_blood_pressure_measurement(data)
       \/ /\ script = "app"
          /\ \E now \in Clock :
                parsed' = app_parse_blood_pressure_measurement(data, now)
    /\ pc' = "parsed"
    /\ UNCHANGED <<script, attempt, i, char_idx, calls, linked, exit,
                   device_address, stopAt, lostWhileActive, measurements,
                   arrived, sessions, data, sfloat_in, catalog>>
    /\ UNCHANGED <<advertising, devices, selected, clients, actor, waits>>

DecodeNext == decode

SpecDecode == DecodeInit /\ [][DecodeNext]_vars

----------------------------------------------------------------------------
(* Choosing the device to connect to.  A device name is a sequence of      *)
(* characters (the empty sequence for a device without a name) and a       *)
(* device is a name with an address; one scan returns `advertising`.       *)

DEVICE_NAME == <<"Q", "a", "r", "d", "i", "o", "A", "R", "M", " ", "2">>

(* str.lower(), on the letters the names below are written with.           *)
lower_char(c) ==
    CASE c = "Q" -> "q"
      [] c = "A" -> "a"
      [] c = "R" -> "r"
      [] c = "M" -> "m"
      [] c = "B" -> "b"
      [] c = "P" -> "p"
      [] c = "S" -> "s"
      [] OTHER -> c

lower(name) == [k \in 1..Len(name) |-> lower_char(name[k])]

(* keyword in name                                                         *)
Contains(name, keyword) ==
    \E k \in 0..(Len(name) - Len(keyword)) :
        SubSeq(name, k + 1, k + Len(keyword)) = keyword

keywords ==
    {<<"q", "a", "r", "d", "i", "o">>,
     <<"b", "l", "o", "o", "d", " ", "p", "r", "e", "s", "s", "u", "r", "e">>,
     <<"b", "p">>}

(* monitor and attempt1: dev.name == DEVICE_NAME                           *)
name_is_target(name) == name = DEVICE_NAME

(* app: device.name and any(keyword in device.name.lower() ...)            *)
potential_qardio(device) ==
    /\ device.name # <<>>
    /\ \E keyword \in keywords : Contains(lower(device.name), keyword)

AdvertisedNames ==
    {DEVICE_NAME,
     lower(DEVICE_NAME),
     <<"M", "y", " ">> \o DEVICE_NAME,
     <<"B", "P", "5">>,
     <<"S", "c", "a", "l", "e">>,
     <<>>}

MaxDevices == 2

(* The device at position k of a scan result has address k.                *)
ScanResults ==
    UNION {{[k \in 1..n |-> [name |-> names[k], address |-> k]] :
               names \in [1..n -> AdvertisedNames]} : n \in 0..MaxDevices}

(* The address given on attempt1's command line.                           *)
SuppliedAddress == 1

(* next((dev for dev in devices if dev.name == DEVICE_NAME), None)         *)
first_with_target_name(found) ==
    LET hits == {k \in 1..Len(found) : name_is_target(found[k].name)}
    IN  IF hits = {}
           THEN <<>>
           ELSE <<found[CHOOSE k \in hits : \A j \in hits : k <= j].address>>

(* scan_for_devices: `return qardio_devices if qardio_devices else         *)
(* all_devices`.                                                           *)
devices_returned(found) ==
    IF SelectSeq(found, potential_qardio) # <<>>
       THEN SelectSeq(found, potential_qardio)
       ELSE found

ScanInit ==
    /\ script \in Scripts
    /\ device_address \in BOOLEAN
    /\ (device_address => script = "attempt1")
    /\ advertising \in ScanResults
    /\ devices = <<>>
    /\ selected = <<>>
    /\ pc = IF script = "app" THEN "scan" ELSE "discover"
    /\ attempt = 1
    /\ i = 0
    /\ char_idx = 1
    /\ calls = <<>>
    /\ linked = FALSE
    /\ exit = "none"
    /\ stopAt = "none"
    /\ lostWhileActive = FALSE
    /\ measurements = <<>>
    /\ arrived = <<>>
    /\ sessions = 1
    /\ data = <<>>
    /\ parsed = NotParsed
    /\ sfloat_in = <<>>
    /\ catalog = RequiredCharacteristics
    /\ clients = <<>>
    /\ actor = 0
    /\ waits = NoWaits

(* blood_pressure_monitor.discover_device, one iteration of its loop.      *)
discover_device_by_name ==
    /\ script = "monitor"
    /\ pc = "discover"
    /\ waits' = Slept("discover", first_with_target_name(advertising) = <<>>,
                       attempt, MAX_DISCOVERY_RETRIES)
    /\ IF first_with_target_name(advertising) # <<>>
          THEN /\ selected' = first_with_target_name(advertising)
               /\ pc' = "connect"
               /\ UNCHANGED <<attempt, exit>>
          ELSE /\ selected' = selected
               /\ IF RangeHasNext(attempt, MAX_DISCOVERY_RETRIES)
                     THEN /\ attempt' = attempt + 1
                          /\ UNCHANGED <<pc, exit>>
                     ELSE /\ pc' = "done"
                          /\ exit' = "discovery_failed"
                          /\ attempt' = attempt
    /\ UNCHANGED <<script, i, char_idx, calls, linked, device_address, stopAt,
                   lostWhileActive, measurements, arrived, sessions, data,
                   parsed, sfloat_in, catalog, advertising, devices, clients,
                   actor>>

(* attempt1.discover_device, the supplied address or one iteration of the  *)
(* loop.                                                                   *)
attempt1_discover_device_by_name ==
    /\ script = "attempt1"
    /\ pc = "discover"
    /\ waits' = Slept("discover",
                       /\ ~discover_device_returns_at_once(device_address)
                       /\ first_with_target_name(advertising) = <<>>,
                       attempt, attempt1_MAX_DISCOVERY_RETRIES)
    /\ IF discover_device_returns_at_once(device_address)
          THEN /\ selected' = <<SuppliedAddress>>
               /\ pc' = "connect"
               /\ UNCHANGED <<attempt, exit>>
          ELSE IF first_with_target_name(advertising) # <<>>
                  THEN /\ selected' = first_with_target_name(advertising)
                       /\ pc' = "connect"
                       /\ UNCHANGED <<attempt, exit>>
                  ELSE /\ selected' = selected
                       /\ IF RangeHasNext(attempt, attempt1_MAX_DISCOVERY_RETRIES)
                             THEN /\ attempt' = attempt + 1
                                  /\ UNCHANGED <<pc, exit>>
                             ELSE /\ pc' = "done"
                                  /\ exit' = "discovery_failed"
                                  /\ attempt' = attempt
    /\ UNCHANGED <<script, i, char_idx, calls, linked, device_address, stopAt,
                   lostWhileActive, measurements, arrived, sessions, data,
                   parsed, sfloat_in, catalog, advertising, devices, clients,
                   actor>>

(* QardioArm2Client.scan_for_devices and the `if not devices` test of      *)
(* run_interactive_session.                                                *)
scan_for_devices_listed ==
    /\ script = "app"
    /\ pc = "scan"
    /\ devices' = devices_returned(advertising)
    /\ IF devices_returned(advertising) = <<>>
          THEN pc' = "finally" /\ exit' = "no_devices"
          ELSE pc' = "select" /\ exit' = exit
    /\ UNCHANGED <<script, attempt, i, char_idx, calls, linked,
                   device_address, stopAt, lostWhileActive, measurements,
                   arrived, sessions, data, parsed, sfloat_in, catalog,
                   advertising, selected, clients, actor,
                   waits>>

(* run_interactive_session: the user types the number of a listed device,  *)
(* or 'q'; any other answer asks again.                                    *)
select_device_listed ==
    /\ script = "app"
    /\ pc = "select"
    /\ \/ /\ pc' = "finally"
          /\ exit' = "quit"
          /\ selected' = selected
       \/ \E device_index \in 1..Len(devices) :
             /\ selected' = <<devices[device_index].address>>
             /\ pc' = "connect"
             /\ exit' = exit
    /\ UNCHANGED <<script, attempt, i, char_idx, calls, linked,
                   device_address, stopAt, lostWhileActive, measurements,
                   arrived, sessions, data, parsed, sfloat_in, catalog,
                   advertising, devices, clients, actor,
                   waits>>

ScanNext ==
    \/ discover_device_by_name
    \/ attempt1_discover_device_by_name
    \/ scan_for_devices_listed
    \/ select_device_listed

SpecScan == ScanInit /\ [][ScanNext]_vars

----------------------------------------------------------------------------
(* Two QardioArm2Client objects in one process, each driven through its    *)
(* own session against its own device.  A client is the record of the      *)
(* fields __init__ creates (client, device_address, measurements), with    *)
(* the await point its session stands at and whether the transport holds   *)
(* its handler as the callback of its connection.                          *)

ClientIds == {1, 2}

(* Client c is pointed at the device with address c.                       *)
DeviceOf(c) == c

(* __init__: self.client = None, self.device_address = None,               *)
(* self.measurements = [].                                                 *)
NewClient ==
    [pc |-> "connect", client |-> "none", device_address |-> 0,
     measurements |-> <<>>, notifying |-> FALSE]

(* self.measurements is created per instance: the handler bound to client  *)
(* c appends to c's own list.                                              *)
measurements_owner_Shared(c) == 1

measurements_owner(c) == c

Recorded ==
    Len(clients[1].measurements) + Len(clients[2].measurements)

PairInit ==
    /\ script = "app"
    /\ device_address = FALSE
    /\ clients = [c \in ClientIds |-> NewClient]
    /\ actor = 0
    /\ waits = NoWaits
    /\ pc = "scan"
    /\ attempt = 1
    /\ i = 0
    /\ char_idx = 1
    /\ calls = <<>>
    /\ linked = FALSE
    /\ exit = "none"
    /\ stopAt = "none"
    /\ lostWhileActive = FALSE
    /\ measurements = <<>>
    /\ arrived = <<>>
    /\ sessions = 1
    /\ data = <<>>
    /\ parsed = NotParsed
    /\ sfloat_in = <<>>
    /\ catalog = RequiredCharacteristics
    /\ advertising = <<>>
    /\ devices = <<>>
    /\ selected = <<>>

(* connect(device_address): self.client = BleakClient(device_address);     *)
(* self.device_address is set only when the connection stands.             *)
paired_connect ==
    \E c \in ClientIds, r \in IoResults :
        /\ clients[c].pc = "connect"
        /\ clients' = [clients EXCEPT
              ![c].client = IF r = "ok" THEN "connected" ELSE "unconnected",
              ![c].device_address = IF r = "ok" THEN DeviceOf(c) ELSE @,
              ![c].pc = IF r = "ok" THEN "enable" ELSE "finally"]
        /\ actor' = c
    /\ UNCHANGED <<script, pc, attempt, i, char_idx, calls, linked, exit,
                   device_address, stopAt, lostWhileActive, measurements,
                   arrived, sessions, data, parsed, sfloat_in, catalog,
                   advertising, devices, selected, waits>>

paired_enable_notifications ==
    \E c \in ClientIds, r \in IoResults :
        /\ clients[c].pc = "enable"
        /\ clients' = [clients EXCEPT
              ![c].notifying = (r = "ok" /\ clients[c].client = "connected"),
              ![c].pc = session_after_enable(r)]
        /\ actor' = c
    /\ UNCHANGED <<script, pc, attempt, i, char_idx, calls, linked, exit,
                   device_address, stopAt, lostWhileActive, measurements,
                   arrived, sessions, data, parsed, sfloat_in, catalog,
                   advertising, devices, selected, waits>>

(* The device with address d notifies: the transport calls the callback    *)
(* registered on the connection to d, which is the bound method of the     *)
(* client connected to d.                                                  *)
paired_notification_handler ==
    \E c \in ClientIds, d \in NotificationPayloads :
        /\ clients[c].client = "connected"
        /\ clients[c].device_address = DeviceOf(c)
        /\ clients[c].notifying
        /\ Recorded < MaxNotifications
        /\ clients' =
              IF handler_keeps(app_parse_blood_pressure_measurement(d, Recorded))
                 THEN [clients EXCEPT ![measurements_owner(c)].measurements =
                          Append(@, app_parse_blood_pressure_measurement(d, Recorded))]
                 ELSE clients
        /\ actor' = c
    /\ UNCHANGED <<script, pc, attempt, i, char_idx, calls, linked, exit,
                   device_address, stopAt, lostWhileActive, measurements,
                   arrived, sessions, data, parsed, sfloat_in, catalog,
                   advertising, devices, selected, waits>>

(* The command 'q' typed into the session of client c.                     *)
paired_quit ==
    \E c \in ClientIds :
        /\ clients[c].pc = "listening"
        /\ clients' = [clients EXCEPT ![c].pc = "disable"]
        /\ actor' = c
    /\ UNCHANGED <<script, pc, attempt, i, char_idx, calls, linked, exit,
                   device_address, stopAt, lostWhileActive, measurements,
                   arrived, sessions, data, parsed, sfloat_in, catalog,
                   advertising, devices, selected, waits>>

paired_disable_notifications ==
    \E c \in ClientIds, r \in IoResults :
        /\ clients[c].pc = "disable"
        /\ clients' = [clients EXCEPT
              ![c].notifying = IF r = "ok" THEN FALSE ELSE @,
              ![c].pc = "finally"]
        /\ actor' = c
    /\ UNCHANGED <<script, pc, attempt, i, char_idx, calls, linked, exit,
                   device_address, stopAt, lostWhileActive, measurements,
                   arrived, sessions, data, parsed, sfloat_in, catalog,
                   advertising, devices, selected, waits>>

(* finally: disconnect() when self.client is set and connected.            *)
paired_disconnect ==
    \E c \in ClientIds, r \in IoResults :
        /\ clients[c].pc = "finally"
        /\ clients' =
              IF clients[c].client = "connected" /\ r = "ok"
                 THEN [clients EXCEPT ![c].client = "unconnected",
                                      ![c].notifying = FALSE,
                                      ![c].pc = "done"]
                 ELSE [clients EXCEPT ![c].pc = "done"]
        /\ actor' = c
    /\ UNCHANGED <<script, pc, attempt, i, char_idx, calls, linked, exit,
                   device_address, stopAt, lostWhileActive, measurements,
                   arrived, sessions, data, parsed, sfloat_in, catalog,
                   advertising, devices, selected, waits>>

(* The device of client c drops its link.                                  *)
paired_transport_disconnected ==
    \E c \in ClientIds :
        /\ clients[c].client = "connected"
        /\ clients[c].pc # "done"
        /\ clients' = [clients EXCEPT ![c].client = "unconnected",
                                      ![c].notifying = FALSE]
        /\ actor' = c
    /\ UNCHANGED <<script, pc, attempt, i, char_idx, calls, linked, exit,
                   device_address, stopAt, lostWhileActive, measurements,
                   arrived, sessions, data, parsed, sfloat_in, catalog,
                   advertising, devices, selected, waits>>

PairNext ==
    \/ paired_connect
    \/ paired_enable_notifications
    \/ paired_notification_handler
    \/ paired_quit
    \/ paired_disable_notifications
    \/ paired_disconnect
    \/ paired_transport_disconnected

SpecPair == PairInit /\ [][PairNext]_vars

----------------------------------------------------------------------------
(* What the entry function of a script hands back to its caller once the   *)
(* script has ended.  blood_pressure_monitor.main has only bare `return`   *)
(* statements; attempt1.connect_and_write returns False from every failure *)
(* branch and `success` after a disconnect that did not raise.             *)
main_returns == [value |-> "None"]

connect_and_write_returns ==
    [value |-> IF exit = "completed" THEN "True" ELSE "False"]

----------------------------------------------------------------------------
(* Vocabulary of the properties.                                           *)

Retrying == {"monitor", "attempt1"}

(* The scan never returned a device with the target name.                  *)
NeverAdvertised == \A k \in Indices("discover") : calls[k].res # "found"

MaxDiscovery ==
    IF script = "monitor" THEN MAX_DISCOVERY_RETRIES
                          ELSE attempt1_MAX_DISCOVERY_RETRIES

MaxConnection ==
    IF script = "monitor" THEN MAX_CONNECTION_RETRIES
                          ELSE attempt1_MAX_CONNECTION_RETRIES

(* Every connect attempt so far raised an error other than "already        *)
(* connected".                                                             *)
AllConnectsFailed ==
    /\ Issued("connect")
    /\ \A k \in Indices("connect") : calls[k].res = "error"

(* The calls of one operation that belong to command number c.             *)
InCommand(op, c) == {k \in Indices(op) : calls[k].cmd = c}

(* A successful call of `op` is the last call of `op` in its stage.        *)
SuccessEnds(op, okres) ==
    \A k \in Indices(op) :
        calls[k].res \in okres =>
            \A j \in InCommand(op, calls[k].cmd) : j <= k

Teardown == {"stop_notify", "disconnect", "disable", "finally", "done"}

----------------------------------------------------------------------------
(* C1: in the monitoring session every write of the activation payload is  *)
(* preceded by a subscribe call on the measurement characteristic that     *)
(* returned successfully.                                                  *)
C1_ActivationAfterSubscribe ==
    script = "monitor" =>
        \A k \in Indices("write") :
            \E j \in 1..(k - 1) :
                calls[j].op = "subscribe" /\ calls[j].res = "ok"

C1_Witness ==
    /\ script = "monitor"
    /\ Issued("write")
    /\ pc = "waiting"

(* C2: with a target that no scan ever reports, the session makes no       *)
(* connect call, stays in discovery until it has made exactly the          *)
(* configured number of discovery calls, and ends on the discovery-failed  *)
(* exit (in a run that is not interrupted during discovery).               *)
C2_DiscoveryExhausted ==
    (script \in Retrying /\ ~device_address /\ NeverAdvertised) =>
        /\ ~Issued("connect")
        /\ Count("discover") <= MaxDiscovery
        /\ pc \in {"discover", "done"}
        /\ pc = "done" =>
              /\ exit = "discovery_failed"
              /\ Count("discover") = MaxDiscovery
        /\ pc = "discover" => Count("discover") = attempt - 1

C2_Witness ==
    /\ script = "monitor"
    /\ NeverAdvertised
    /\ pc = "done"
    /\ exit = "discovery_failed"
    /\ \E k \in Indices("discover") : calls[k].res = "error"
    /\ \E k \in Indices("discover") : calls[k].res = "absent"

(* C3 (as claimed): once connect succeeded, the finished monitoring        *)
(* session has invoked disconnect, whatever stop_notify did.               *)
C3_Original ==
    (/\ script = "monitor"
     /\ pc = "done"
     /\ \E k \in Indices("connect") : calls[k].res = "ok")
        => Issued("disconnect")

(* C4 (as claimed): a stop request that arrives while a connection exists  *)
(* leads, by the time the session has ended, to an unsubscribe call        *)
(* followed by a disconnect call.                                          *)
C4_Original ==
    (/\ script = "monitor"
     /\ pc = "done"
     /\ stopAt \in {"read_feature", "subscribe", "activate", "waiting"})
        => \E j \in Indices("unsubscribe") :
               \E k \in Indices("disconnect") : j < k

(* C5 (as claimed): a session whose link dropped while it was Active ends  *)
(* on a connection-lost exit, with at most one unsubscribe call.           *)
C5_Original ==
    (/\ script = "monitor"
     /\ pc = "done"
     /\ lostWhileActive)
        => /\ exit = "connection_lost"
           /\ Count("unsubscribe") <= 1

(* C6: in each retry loop (discovery, connect, the write of one command)   *)
(* the operation is called at most the configured number of times,         *)
(* failures by exception and by an unusable result alike; a call that      *)
(* succeeds is the last one of its loop and the loop's failure exit is     *)
(* not taken.                                                              *)
C6_BoundedRetry ==
    script \in Retrying =>
        /\ Count("discover") <= MaxDiscovery
        /\ Count("connect") <= MaxConnection
        /\ SuccessEnds("discover", {"found"})
        /\ SuccessEnds("connect", {"ok"})
        /\ (\E k \in Indices("discover") : calls[k].res = "found")
               => (pc # "discover" /\ exit # "discovery_failed")
        /\ (\E k \in Indices("connect") : calls[k].res = "ok")
               => (pc # "connect" /\ exit # "connect_failed")
        /\ script = "attempt1" =>
              /\ \A c \in 0..i :
                    Cardinality(InCommand("write", c))
                        <= attempt1_MAX_COMMAND_RETRIES
              /\ SuccessEnds("write", {"ok"})
              /\ (\E k \in InCommand("write", i) : calls[k].res = "ok")
                     => (pc # "send_command" /\ exit # "command_failed")

C6_Witness ==
    /\ script = "attempt1"
    /\ i = 1
    /\ pc = "send_command"
    /\ \E k \in 1..(Len(calls) - 1) :
          /\ calls[k].op = "write" /\ calls[k].res = "error"
          /\ calls[k + 1].op = "write" /\ calls[k + 1].res = "ok"
    /\ \E k \in Indices("discover") : calls[k].res = "absent"
    /\ \E k \in Indices("discover") : calls[k].res = "error"
    /\ \E k \in Indices("connect") : calls[k].res = "error"

(* C7 (as claimed): a connect attempt answered "already connected" is the  *)
(* last connect attempt, and the session has left the connect stage        *)
(* without failing.                                                        *)
C7_Original ==
    script \in Retrying =>
        \A k \in Indices("connect") :
            calls[k].res = "already" =>
                /\ \A j \in Indices("connect") : j <= k
                /\ pc # "connect"
                /\ exit # "connect_failed"

(* C8: when every connect attempt raised an error other than "already      *)
(* connected", the session issues no read, subscribe or write, stays in    *)
(* the connect stage until it has made exactly the configured number of    *)
(* connect calls, and ends on the connect-failed exit.                     *)
C8_ConnectExhausted ==
    (script \in Retrying /\ AllConnectsFailed) =>
        /\ ~Issued("read")
        /\ ~Issued("subscribe")
        /\ ~Issued("write")
        /\ ~Issued("unsubscribe")
        /\ Count("connect") <= MaxConnection
        /\ pc \in {"connect", "done"}
        /\ pc = "done" =>
              /\ exit = "connect_failed"
              /\ Count("connect") = MaxConnection

C8_Witness ==
    /\ script = "monitor"
    /\ AllConnectsFailed
    /\ pc = "done"
    /\ exit = "connect_failed"

C10_Original ==
    (/\ script \in Retrying
     /\ pc = "done"
     /\ exit \in {"activation_failed", "command_failed"})
        => Cardinality(InCommand("write", i)) = attempt1_MAX_COMMAND_RETRIES

(* C11 (as claimed): in one session unsubscribe is called at most once and *)
(* disconnect is called at most once, whatever either call returned.       *)
C11_Original ==
    /\ Count("unsubscribe") <= 1
    /\ Count("disconnect") <= 1
----------------------------------------------------------------------------
(* Vocabulary of the notification claims.                                  *)

(* The notification delivered by the step just taken.                      *)
Delivered == arrived'[Len(arrived')]

(* A step that delivers a notification: the only action that extends       *)
(* `arrived`.                                                              *)
NotificationStep == Len(arrived') = Len(arrived) + 1

(* The session is Active: subscribed, activated, waiting for readings.     *)
Active == pc \in {"waiting", "listening"}

(* A payload decodes when it has the seven mandatory bytes.                *)
Decodes(d) == Len(d) >= 7

(* C12: a notification that fails to decode changes neither the position  *)
(* of the session, its exit, its link, its call log nor the measurement    *)
(* log; a notification that decodes and reaches the handler is appended    *)
(* to the log, whatever arrived before it.                                 *)
C12_MalformedNotificationIsHarmless ==
    [][NotificationStep =>
          /\ ~Decodes(Delivered.data) =>
                /\ measurements' = measurements
                /\ pc' = pc
                /\ exit' = exit
                /\ linked' = linked
                /\ calls' = calls
          /\ (Decodes(Delivered.data) /\ Delivered.called) =>
                /\ Len(measurements') = Len(measurements) + 1
                /\ measurements'[Len(measurements')].kind = "measurement"
                /\ pc' = pc]_vars

(* A malformed notification reached the handler while the session was      *)
(* Active, a valid one followed it and is in the log, and the session is   *)
(* still Active.                                                           *)
C12_Witness ==
    /\ Active
    /\ Len(arrived) = 2
    /\ arrived[1].called /\ ~Decodes(arrived[1].data)
    /\ arrived[2].called /\ Decodes(arrived[2].data)
    /\ Len(measurements) = 1
    /\ measurements[1].kind = "measurement"
(* The readings a sequence of notifications leaves behind: those that      *)
(* reached the handler and decode, in arrival order, each decoded at the   *)
(* clock reading of its arrival.                                           *)
Reading ==
    [s \in {"monitor", "app"} |->
        [d \in NotificationPayloads |->
            [now \in 0..MaxNotifications |->
                IF s = "monitor"
                   THEN monitor_parse_blood_pressure_measurement(d)
                   ELSE app_parse_blood_pressure_measurement(d, now)]]]

RECURSIVE DecodedInOrder(_)
DecodedInOrder(arr) ==
    IF arr = <<>> THEN <<>>
    ELSE LET n == Len(arr)
             earlier == DecodedInOrder(SubSeq(arr, 1, n - 1))
         IN  IF arr[n].called /\ Decodes(arr[n].data)
                THEN Append(earlier, Reading[script][arr[n].data][n - 1])
                ELSE earlier

(* C13: at every moment, over one session or several on the same client,   *)
(* the measurement log is exactly the decoded readings of the              *)
(* notifications handled so far, in arrival order; nothing is removed,     *)
(* reordered, changed or cleared by a teardown and a new session.          *)
C13_LogIsDecodedArrivals == measurements = DecodedInOrder(arrived)

(* A second session is starting on the client and the log still holds the  *)
(* reading recorded during the first.                                      *)
C13_Witness ==
    /\ script = "app"
    /\ sessions = 2
    /\ pc = "scan"
    /\ calls = <<>>
    /\ Len(measurements) = 1
    /\ measurements[1] = Reading["app"][arrived[Len(arrived)].data][0]
SessionState(p) ==
    CASE p = "discover" -> "Discovering"
      [] p = "connect" -> "Connecting"
      [] p = "read_feature" -> "ServiceResolving"
      [] p = "subscribe" -> "Activating"
      [] p = "activate" -> "Subscribed"
      [] p = "waiting" -> "Active"
      [] p \in {"stop_notify", "disconnect"} -> "Disconnecting"
      [] OTHER -> "Terminal"

StateOrder ==
    <<"Idle", "Discovering", "Connecting", "ServiceResolving", "Activating",
      "Subscribed", "Active", "Disconnecting", "Terminal">>

Rank(p) == CHOOSE k \in 1..Len(StateOrder) : StateOrder[k] = SessionState(p)

(* C15: every step of the monitor leaves the session in its state or moves *)
(* it to a later one in the order Idle, Discovering, Connecting,            *)
(* ServiceResolving, Activating, Subscribed, Active, Disconnecting,         *)
(* Closed/Failed; once the terminal state is reached the session stays      *)
(* there and issues no further transport call.                              *)
C15_ForwardOnly ==
    [][script = "monitor" =>
          /\ Rank(pc') >= Rank(pc)
          /\ pc = "done" => (pc' = "done" /\ calls' = calls)]_vars

(* The monitor went through every state: it was stopped while Active,      *)
(* unsubscribed, disconnected and ended.                                   *)
C15_Witness ==
    /\ script = "monitor"
    /\ pc = "done"
    /\ stopAt = "waiting"
    /\ Issued("unsubscribe")
    /\ Issued("disconnect")

----------------------------------------------------------------------------
(* Vocabulary of the decoder claims.                                      *)

(* The parser has returned.                                                *)
Decoded == pc = "parsed"

(* The parser built a measurement.                                         *)
IsMeasurement == parsed.kind = "measurement"

(* Bytes the optional fields announced by a flags byte need after the      *)
(* seven mandatory ones: timestamp 7, pulse rate 2, user id 1, status 2.   *)
AnnouncedBytes(flags) ==
    (IF FlagSet(flags, 2) THEN 7 ELSE 0) + (IF FlagSet(flags, 4) THEN 2 ELSE 0)
    + (IF FlagSet(flags, 8) THEN 1 ELSE 0) + (IF FlagSet(flags, 16) THEN 2 ELSE 0)

(* The flags byte announces a field that the remaining bytes cannot hold.  *)
Truncated(d) == Len(d) >= 7 /\ Len(d) < 7 + AnnouncedBytes(d[1])

(* C16 (as claimed): a packet whose flags announce an optional field that  *)
(* the remaining bytes cannot hold is rejected with a truncation error and *)
(* no measurement is produced.                                             *)
C16_Original ==
    (Decoded /\ Truncated(data)) =>
        (~IsMeasurement /\ "truncated" \in parsed.logged)

(* C17: every byte sequence shorter than seven bytes, the empty one        *)
(* included, is rejected by the length check: the parser logs the          *)
(* invalid-length error and returns no measurement.                        *)
C17_TooShortRejected ==
    (Decoded /\ Len(data) < 7) =>
        /\ ~IsMeasurement
        /\ parsed.kind \in {"none", "empty"}
        /\ parsed.logged \in {{"invalid_data"}, {"invalid_length"}}

(* The app's parser was handed six bytes and returned {}.                  *)
C17_Witness ==
    /\ Decoded
    /\ script = "app"
    /\ Len(data) = 6
    /\ parsed.kind = "empty"

(* The value of an n-bit field read as two's complement.                   *)
TwosComplement(bits, n) ==
    IF bits >= Pow(2, n - 1) THEN bits - Pow(2, n) ELSE bits

(* The IEEE-11073 SFLOAT value of a 16-bit word: mantissa in the low       *)
(* twelve bits, exponent in the high four, mantissa * 10^exponent as an    *)
(* exact decimal.                                                          *)
SfloatValue(word) ==
    Exact(TwosComplement(word % 4096, 12), TwosComplement(word \div 4096, 4))

(* C18 (as claimed): for every input of seven bytes or more the parser     *)
(* returns a measurement whose systolic, diastolic and mean arterial       *)
(* pressure are the SFLOAT values of the little-endian words at offsets    *)
(* 1-2, 3-4 and 5-6.                                                       *)
C18_Original ==
    (Decoded /\ Len(data) >= 7) =>
        /\ IsMeasurement
        /\ parsed.systolic = SfloatValue(LittleEndian16(data[2], data[3]))
        /\ parsed.diastolic = SfloatValue(LittleEndian16(data[4], data[5]))
        /\ parsed.mean_arterial = SfloatValue(LittleEndian16(data[6], data[7]))
(* C19 (as claimed): decoding the 16-bit encoding of any (mantissa,        *)
(* exponent) with mantissa in -2048..2047 and exponent in -8..7 returns    *)
(* the decimal value mantissa * 10^exponent.                               *)
C19_Original ==
    (Decoded /\ script = "monitor" /\ sfloat_in # <<>>) =>
        parsed.systolic = Exact(sfloat_in[1], sfloat_in[2])

(* A word whose mantissa bits are one of the reserved IEEE-11073 values.   *)
Reserved(word) == (word % 4096) \in ReservedWords

(* C20 (as claimed): a systolic, diastolic, mean arterial pressure or      *)
(* pulse rate word with a reserved mantissa (0x07FE, 0x0802, 0x07FF,       *)
(* 0x0800) is returned under the tag "special", never as a number.         *)
C20_Original ==
    (Decoded /\ IsMeasurement) =>
        /\ Reserved(LittleEndian16(data[2], data[3]))
              => parsed.systolic.repr = "special"
        /\ Reserved(LittleEndian16(data[4], data[5]))
              => parsed.diastolic.repr = "special"
        /\ Reserved(LittleEndian16(data[6], data[7]))
              => parsed.mean_arterial.repr = "special"
        /\ (data[1] = 4 /\ Len(data) >= 9
               /\ Reserved(LittleEndian16(data[8], data[9])))
              => parsed.pulse_rate[1].repr = "special"

(* The timestamp flag is set and its seven bytes are there.                *)
TimestampRead(d) == Len(d) >= 14 /\ FlagSet(d[1], 2)

(* C21 (as claimed): when the timestamp flag is set and the seven bytes    *)
(* are present but are no calendar date-time, the parser reports the       *)
(* invalid timestamp and returns no measurement.                           *)
C21_Original ==
    (Decoded /\ TimestampRead(data) /\ ~ValidDateTime(DateTimeAt(data, 7))) =>
        (~IsMeasurement /\ "invalid_timestamp" \in parsed.logged)

(* Where the optional field announced by flag bit `mask` starts: after the *)
(* seven mandatory bytes and the announced fields that come before it in   *)
(* the order timestamp (7), pulse rate (2), user id (1), status (2).       *)
FieldOffset(flags, mask) ==
    7 + (IF mask > 2 /\ FlagSet(flags, 2) THEN 7 ELSE 0)
      + (IF mask > 4 /\ FlagSet(flags, 4) THEN 2 ELSE 0)
      + (IF mask > 8 /\ FlagSet(flags, 8) THEN 1 ELSE 0)

(* Every announced field is there in full, with a valid date-time.         *)
Complete(d) ==
    /\ Len(d) >= 7
    /\ Len(d) >= 7 + AnnouncedBytes(d[1])
    /\ FlagSet(d[1], 2) => ValidDateTime(DateTimeAt(d, 7))

(* C22 (as claimed): the announced optional fields are read in the order   *)
(* timestamp, pulse rate, user id, status, each at the cursor left by the  *)
(* announced fields before it: the date-time of the seven bytes, the       *)
(* SFLOAT value of the pulse rate word, the user id byte as it is and the  *)
(* little-endian status word.                                              *)
C22_Original ==
    (Decoded /\ Complete(data)) =>
        LET flags == data[1]
            pulse == FieldOffset(flags, 4)
            user == FieldOffset(flags, 8)
            status == FieldOffset(flags, 16)
        IN  /\ IsMeasurement
            /\ FlagSet(flags, 2) =>
                  parsed.device_timestamp = <<DateTimeAt(data, 7)>>
            /\ FlagSet(flags, 4) =>
                  parsed.pulse_rate =
                      <<SfloatValue(LittleEndian16(data[pulse + 1],
                                                   data[pulse + 2]))>>
            /\ FlagSet(flags, 8) => parsed.user_id = <<data[user + 1]>>
            /\ FlagSet(flags, 16) =>
                  parsed.status = <<LittleEndian16(data[status + 1],
                                                   data[status + 2])>>

(* The measurement carries none of the optional fields.                    *)
NoOptionalFields ==
    /\ parsed.device_timestamp = <<>>
    /\ parsed.pulse_rate = <<>>
    /\ parsed.user_id = <<>>
    /\ parsed.status = <<>>

(* C23: for every seven-byte input whose flags byte is 0x00 the parser     *)
(* returns a measurement in mmHg without device timestamp, pulse rate,     *)
(* user id or status.                                                      *)
C23_PlainMeasurement ==
    (Decoded /\ Len(data) = 7) =>
        (data[1] = 0 =>
            /\ IsMeasurement
            /\ parsed.unit = "mmHg"
            /\ NoOptionalFields)

(* The app's parser returned the measurement of 00 28 01 50 00 5A 00.      *)
C23_Witness ==
    /\ Decoded
    /\ script = "app"
    /\ data = <<0>> \o Body
    /\ IsMeasurement
    /\ parsed.unit = "mmHg"

(* C24: the unit of a measurement is kPa exactly when bit 0 of the flags   *)
(* byte is 1 and mmHg exactly when it is 0, for every value of the other   *)
(* seven bits.                                                             *)
C24_UnitIsBitZero ==
    (Decoded /\ IsMeasurement) =>
        /\ parsed.unit \in {"kPa", "mmHg"}
        /\ parsed.unit = "kPa" <=> data[1] % 2 = 1

(* The monitor's parser was handed flags 0xE1 (bit 0 and the three         *)
(* reserved bits) and returned a measurement in kPa.                       *)
C24_Witness ==
    /\ Decoded
    /\ script = "monitor"
    /\ Len(data) >= 7
    /\ data[1] = 225
    /\ IsMeasurement
    /\ parsed.unit = "kPa"

(* The part of a packet that its flags byte accounts for.                  *)
Consumed(d) == Prefix(d, 7 + AnnouncedBytes(d[1]))

(* What the parser of this run returns for d, at the clock reading of the  *)
(* measurement in hand.                                                    *)
ParsedAlike(d) ==
    IF script = "monitor"
       THEN monitor_parse_blood_pressure_measurement(d)
       ELSE app_parse_blood_pressure_measurement(d, parsed.timestamp[1])

(* C25: when bytes follow the last field announced by the flags, the       *)
(* parser returns a measurement, logs no error, and the measurement is     *)
(* the one it returns for the packet without those bytes.                  *)
C25_TrailingBytesIgnored ==
    (Decoded /\ Complete(data) /\ Len(data) > Len(Consumed(data))) =>
        /\ IsMeasurement
        /\ parsed.logged = {}
        /\ parsed = ParsedAlike(Consumed(data))

(* The app's parser was handed a packet announcing all four optional       *)
(* fields, followed by one more byte, and returned all four.               *)
C25_Witness ==
    /\ Decoded
    /\ script = "app"
    /\ Len(data) = 20
    /\ data[1] = 30
    /\ IsMeasurement
    /\ parsed.status = <<4>>

----------------------------------------------------------------------------
----------------------------------------------------------------------------
(* C27: a read of an optional characteristic (device information, battery  *)
(* level, blood-pressure feature) that fails, because the characteristic   *)
(* is absent or the read raises, is skipped: unless the user stops the     *)
(* session, it goes on to the remaining reads and to the subscribe call,   *)
(* and no exit branch is taken on account of the read.                     *)
OptionalReadFailed ==
    /\ script \in {"monitor", "app"}
    /\ \E k \in Indices("read") : calls[k].res = "error"

C27_OptionalReadNeverEnds ==
    (OptionalReadFailed /\ stopAt = "none") =>
        IF pc \in {"read_device_info", "read_battery_level", "subscribe",
                   "enable"}
           THEN exit = "none"
           ELSE Issued("subscribe")

C27_Witness ==
    /\ script = "app"
    /\ Count("read") = INFO_CHARACTERISTICS + 1
    /\ \A k \in Indices("read") : calls[k].res = "error"
    /\ pc = "listening"
    /\ calls[Len(calls)] = [op |-> "subscribe", res |-> "ok", cmd |-> 0]

----------------------------------------------------------------------------
(* C28: a session started with a device address makes no discovery call;   *)
(* the first transport operation it issues is a connect.                   *)
C28_AddressSkipsDiscovery ==
    device_address =>
        /\ ~Issued("discover")
        /\ exit # "discovery_failed"
        /\ calls # <<>> => calls[1].op = "connect"

C28_Witness ==
    /\ script = "attempt1"
    /\ device_address
    /\ pc = "send_command"
    /\ calls = <<[op |-> "connect", res |-> "ok", cmd |-> 0]>>

----------------------------------------------------------------------------
(* C29 as stated: the device handed on for connection has exactly the      *)
(* target name, or has the address that was supplied; a device whose name  *)
(* contains the target, differs from it in case, or is unrelated is never  *)
(* selected.                                                               *)
HasTargetName(address) ==
    \E k \in 1..Len(advertising) :
        /\ advertising[k].address = address
        /\ advertising[k].name = DEVICE_NAME

C29_Original ==
    selected # <<>> =>
        \/ HasTargetName(selected[1])
        \/ device_address /\ selected[1] = SuppliedAddress

----------------------------------------------------------------------------
(* C30: with two clients for distinct devices interleaved in one process,  *)
(* the fields and the measurement log of a client change only in steps of  *)
(* that client: its own commands, its own transport calls and the          *)
(* notifications of its own device.                                        *)
C30_NoInterference ==
    [][\A c \in ClientIds : clients'[c] # clients[c] => actor' = c]_vars

C30_Witness ==
    /\ clients # <<>>
    /\ clients[1].pc = "listening"
    /\ clients[2].pc = "listening"
    /\ Len(clients[1].measurements) = 1
    /\ Len(clients[2].measurements) = 1
    /\ actor = 2

----------------------------------------------------------------------------
(* C31 (as claimed): in every measurement the parser returns, each         *)
(* optional field (device timestamp, pulse rate, user id, status) is there *)
(* exactly when its flag bit is set and the bytes from its offset on hold  *)
(* it; and no returned measurement lacks a field whose flag bit is set.    *)
FieldFits(d, mask, size) ==
    FlagSet(d[1], mask) /\ Len(d) >= FieldOffset(d[1], mask) + size

C31_Original ==
    (Decoded /\ IsMeasurement) =>
        /\ parsed.device_timestamp # <<>> <=> FieldFits(data, 2, 7)
        /\ parsed.pulse_rate # <<>> <=> FieldFits(data, 4, 2)
        /\ parsed.user_id # <<>> <=> FieldFits(data, 8, 1)
        /\ parsed.status # <<>> <=> FieldFits(data, 16, 2)
        /\ FlagSet(data[1], 2) => parsed.device_timestamp # <<>>
        /\ FlagSet(data[1], 4) => parsed.pulse_rate # <<>>
        /\ FlagSet(data[1], 8) => parsed.user_id # <<>>
        /\ FlagSet(data[1], 16) => parsed.status # <<>>

----------------------------------------------------------------------------
(* C32: once a stop or an interrupt has been requested, the script reaches *)
(* its end, whether unsubscribe and disconnect succeed or fail, provided   *)
(* each cleanup call returns: the cleanup path has no retry or wait loop.  *)
C32_StopTerminates == (stopAt # "none") ~> (pc = "done")

(* The monitor was interrupted while waiting, its unsubscribe failed, and  *)
(* it has ended.                                                           *)
C32_Witness ==
    /\ script = "monitor"
    /\ stopAt = "waiting"
    /\ pc = "done"
    /\ calls[Len(calls)] = [op |-> "unsubscribe", res |-> "error", cmd |-> 0]

----------------------------------------------------------------------------
(* C33 (as claimed): the parser's result is determined by the bytes alone: *)
(* parsing the same byte sequence at any other time gives a result equal   *)
(* in every field.                                                         *)
ParsedAt(now) ==
    IF script = "monitor"
       THEN monitor_parse_blood_pressure_measurement(data)
       ELSE app_parse_blood_pressure_measurement(data, now)

C33_Original == Decoded => \A now \in Clock : parsed = ParsedAt(now)

----------------------------------------------------------------------------
(* C34: in every retry loop a wait happens only between two consecutive    *)
(* attempts.  While a loop is running, each attempt made so far was        *)
(* followed by a wait; once it has ended after k attempts, k - 1 waits     *)
(* have happened: none after the attempt that succeeded, none after the    *)
(* last one that failed.                                                   *)
LoopsEnded(op, at) == IF pc # at /\ Issued(op) THEN 1 ELSE 0

(* send_command calls that have returned: the commands written to, but     *)
(* for the one whose loop is still running.                                *)
CommandsEnded ==
    Cardinality({calls[k].cmd : k \in Indices("write")}
                \ (IF pc = "send_command" THEN {i} ELSE {}))

C34_WaitsBetweenAttempts ==
    script \in Retrying =>
        /\ waits.discover = Count("discover") - LoopsEnded("discover", "discover")
        /\ waits.connect = Count("connect") - LoopsEnded("connect", "connect")
        /\ script = "attempt1" => waits.command = Count("write") - CommandsEnded

(* attempt1 gave up a command after three writes and two waits, having     *)
(* connected at the second attempt after one wait.                         *)
C34_Witness ==
    /\ script = "attempt1"
    /\ exit = "command_failed"
    /\ Count("write") = attempt1_MAX_COMMAND_RETRIES
    /\ waits.command = attempt1_MAX_COMMAND_RETRIES - 1
    /\ Count("connect") = 2
    /\ waits.connect = 1

----------------------------------------------------------------------------
(* C35 (as claimed): when every attempt of a retried operation has failed, *)
(* the caller is handed the failure seen on the last attempt together with *)
(* the number of attempts, under the reason of the stage that failed.      *)
Exhausted ==
    /\ script \in Retrying
    /\ pc = "done"
    /\ exit \in {"discovery_failed", "connect_failed", "command_failed"}

ExhaustedStage ==
    CASE exit = "discovery_failed" -> [reason |-> "DiscoveryTimeout", op |-> "discover"]
      [] exit = "connect_failed" -> [reason |-> "ConnectionFailure", op |-> "connect"]
      [] OTHER -> [reason |-> "ActivationFailure", op |-> "write"]

LastOf(op) == calls[CHOOSE k \in Indices(op) : \A j \in Indices(op) : j <= k]

C35_Original ==
    Exhausted =>
        (IF script = "monitor" THEN main_returns ELSE connect_and_write_returns)
            = [value |-> "Failed",
               reason |-> ExhaustedStage.reason,
               failure |-> LastOf(ExhaustedStage.op).res,
               attempts |-> Count(ExhaustedStage.op)]

----------------------------------------------------------------------------
(* C36: the read-back after an activation write is diagnostic only.  It is *)
(* made only after a write that succeeded; whatever it gives, the command  *)
(* counts as done and the next call is the first write of the next command *)
(* (or the disconnect once all commands are done), never another write of  *)
(* the same command; and a command counts as done exactly when one of its  *)
(* writes succeeded.                                                       *)
CommandDone(c) == c < i

C36_ReadBackDiagnosticOnly ==
    script = "attempt1" =>
        /\ \A k \in Indices("read") :
              /\ k > 1
              /\ calls[k - 1] = [op |-> "write", res |-> "ok", cmd |-> calls[k].cmd]
              /\ CommandDone(calls[k].cmd)
              /\ k < Len(calls) =>
                    \/ /\ calls[k + 1].op = "write"
                       /\ calls[k + 1].cmd = calls[k].cmd + 1
                    \/ /\ calls[k + 1].op = "disconnect"
                       /\ ~MoreCommands(calls[k].cmd + 1)
        /\ \A k \in Indices("write") :
              CommandDone(calls[k].cmd) =>
                  \E j \in Indices("write") :
                      calls[j].cmd = calls[k].cmd /\ calls[j].res = "ok"
        /\ \A k \in Indices("write") :
              (calls[k].res = "ok" /\ pc # "read_response") =>
                  CommandDone(calls[k].cmd)
        /\ exit = "completed" => \A k \in Indices("write") :
                                     CommandDone(calls[k].cmd)

(* Both commands were written at the first attempt, the read-back of the   *)
(* first failed, and the run completed.                                    *)
C36_Witness ==
    /\ script = "attempt1"
    /\ exit = "completed"
    /\ i = MaxCommands
    /\ \E k \in Indices("read") : calls[k].res = "error" /\ calls[k].cmd = 0
    /\ Count("write") = MaxCommands

----------------------------------------------------------------------------
(* C37 (as claimed): when the timestamp flag is set and fewer than seven   *)
(* bytes follow offset 7, no later optional field (pulse rate, user id,    *)
(* status) is decoded from the bytes at offset 7 onward, which belong to   *)
(* the timestamp.                                                          *)
TimestampCut(d) == Len(d) >= 7 /\ Len(d) < 14 /\ FlagSet(d[1], 2)

C37_Original ==
    (Decoded /\ IsMeasurement /\ TimestampCut(data)) =>
        /\ parsed.pulse_rate = <<>>
        /\ parsed.user_id = <<>>
        /\ parsed.status = <<>>

----------------------------------------------------------------------------
(* C38: connect_and_write stops at the first command whose write attempts  *)
(* are all used up: no write follows, of that command or of a later one,   *)
(* the run does not complete and returns False, and the disconnect is      *)
(* still called.                                                           *)
FailedWrites(c) ==
    {k \in Indices("write") : calls[k].cmd = c /\ calls[k].res = "error"}

GivenUp(c) == Cardinality(FailedWrites(c)) >= attempt1_MAX_COMMAND_RETRIES

C38_StopsAtExhaustedCommand ==
    script = "attempt1" =>
        \A c \in 0..MaxCommands :
            GivenUp(c) =>
                /\ Cardinality(FailedWrites(c)) = attempt1_MAX_COMMAND_RETRIES
                /\ \A k \in Indices("write") :
                      /\ calls[k].cmd <= c
                      /\ calls[k].cmd = c => k \in FailedWrites(c)
                /\ pc \in {"disconnect", "error_disconnect", "done"}
                /\ exit \in {"command_failed", "command_error"}
                /\ pc # "disconnect" => Issued("disconnect")
                /\ pc = "done" => connect_and_write_returns.value = "False"

(* The first command went through, the second was given up, and the        *)
(* disconnect was made.                                                    *)
C38_Witness ==
    /\ script = "attempt1"
    /\ GivenUp(1)
    /\ pc = "done"
    /\ exit = "command_failed"
    /\ calls[Len(calls)] = [op |-> "disconnect", res |-> "ok", cmd |-> 1]

====
